---- MODULE Spec2Model ----
(***************************************************************************)
(* Model of the Instagram metadata plugin (instagram_meta.py) and of the   *)
(* Instagram scraper script (instagram_scraper.py).                        *)
(*                                                                         *)
(* Python values are encoded as follows.                                   *)
(*   - a str / None slot holding free text (title, caption, date,         *)
(*     username, tag id) is a TLA+ string; None is the string NONE;         *)
(*   - a str / None slot holding a URL or a shortcode is a tuple of        *)
(*     tokens (see CodeLen); None is the tuple NONE_T, "" is << >>;        *)
(*   - a JSON scalar whose Python type matters (ids, timestamps) is a      *)
(*     record [t, n, s] with t in null / absent / int / bool / str.        *)
(***************************************************************************)
EXTENDS Integers, Sequences, FiniteSets, TLC

NONE == "<None>"
NONE_T == <<"<None>">>

\* Python truthiness of a str-or-None value, and of a URL-or-None value.
Truthy(s) == s # NONE /\ s # ""
TruthyT(u) == u # NONE_T /\ u # << >>

\* Python `a or b` on the two encodings.
PyOr(a, b) == IF Truthy(a) THEN a ELSE b
PyOrT(a, b) == IF TruthyT(a) THEN a ELSE b

\* JSON scalars: null, an integer, a boolean, a string; JAbsent is a key that is missing.
JNull == [t |-> "null", n |-> 0, s |-> ""]
JAbsent == [t |-> "absent", n |-> 0, s |-> ""]
JInt(k) == [t |-> "int", n |-> k, s |-> ""]
JBool(b) == [t |-> "bool", n |-> IF b THEN 1 ELSE 0, s |-> ""]
JStr(x) == [t |-> "str", n |-> 0, s |-> x]

\* dict.get(key): None for a missing key.
Get(v) == IF v.t = "absent" THEN JNull ELSE v

\* Python truthiness of a JSON scalar: None, 0, False and "" are falsy.
TruthyJ(v) == CASE v.t \in {"null", "absent"} -> FALSE
                [] v.t \in {"int", "bool"} -> v.n # 0
                [] OTHER -> v.s # ""

\* Python `a or b` on JSON scalars.
PyOrJ(a, b) == IF TruthyJ(a) THEN a ELSE b

\* Python str(v) of a JSON scalar: str(None) is the text "None".
PyStr(v) == CASE v.t = "null" -> "None"
              [] v.t = "int" -> ToString(v.n)
              [] OTHER -> v.s

(***************************************************************************)
(* URLs are tuples of tokens.  A token is either a separator ("/", ".",    *)
(* "\\", "?", the scheme-and-www prefix "https://www.") or a run of        *)
(* characters of the class [A-Za-z0-9_-]; CodeLen gives the number of      *)
(* characters of such a run and 0 for a separator.                         *)
(***************************************************************************)
CodeLen(tok) == CASE tok = "p" -> 1
                  [] tok = "tv" -> 2
                  [] tok = "ab" -> 2
                  [] tok = "com" -> 3
                  [] tok = "Dy8" -> 3
                  [] tok = "reel" -> 4
                  [] tok = "Cx7_-" -> 5
                  [] tok = "Zq9-_" -> 5
                  [] tok = "example" -> 7
                  [] tok = "instagram" -> 9
                  [] OTHER -> 0

\* Tokens that are one character long (what the regex `.` can match).
OneChar == {"p", "/", ".", "\\", "?"}

\* (?:reel|p|tv)
PostKinds == {"reel", "p", "tv"}

RECURSIVE CodeRun(_, _)
\* Number of consecutive [A-Za-z0-9_-] tokens of u from position j on.
CodeRun(u, j) == IF j > Len(u) \/ CodeLen(u[j]) = 0 THEN 0 ELSE 1 + CodeRun(u, j + 1)

RECURSIVE CharCount(_)
\* Number of characters of a run of tokens.
CharCount(run) == IF run = << >> THEN 0 ELSE CodeLen(Head(run)) + CharCount(Tail(run))

\* ([A-Za-z0-9_-]{5,}) at position j: the greedy run, or NONE_T if shorter than 5.
Group(u, j) ==
    LET run == SubSeq(u, j, j + CodeRun(u, j) - 1)
    IN IF CharCount(run) >= 5 THEN run ELSE NONE_T

\* instagram\\.com/(?:reel|p|tv)/ at position i: a literal backslash, then any character.
Alt1(u, i) ==
    /\ i + 6 <= Len(u)
    /\ u[i] = "instagram" /\ u[i + 1] = "\\" /\ u[i + 2] \in OneChar
    /\ u[i + 3] = "com" /\ u[i + 4] = "/" /\ u[i + 5] \in PostKinds /\ u[i + 6] = "/"

\* /reel/ | /p/ | /tv/ at position i.
Alt2(u, i) ==
    /\ i + 2 <= Len(u)
    /\ u[i] = "/" /\ u[i + 1] \in PostKinds /\ u[i + 2] = "/"

\* The group captured by a match of SHORTCODE_RE starting at position i, or NONE_T.
MatchAt(u, i) ==
    IF Alt1(u, i) THEN Group(u, i + 7)
    ELSE IF Alt2(u, i) THEN Group(u, i + 3)
    ELSE NONE_T

RECURSIVE Search(_, _)
\* SHORTCODE_RE.search: the leftmost match.
Search(u, i) ==
    IF i > Len(u) THEN NONE_T
    ELSE IF MatchAt(u, i) # NONE_T THEN MatchAt(u, i)
    ELSE Search(u, i + 1)

\* _extract_shortcode
ExtractShortcode(url) == IF ~TruthyT(url) THEN NONE_T ELSE Search(url, 1)

\* f"https://www.instagram.com/p/{shortcode}/"
PostUrl(sc) == <<"https://www.", "instagram", ".", "com", "/", "p", "/">> \o sc \o <<"/">>

\* datetime.utcfromtimestamp(n).strftime("%Y-%m-%d") for a timestamp within January 1970.
DateOf(n) ==
    LET d == (n \div 86400) + 1
    IN "1970-01-" \o (IF d < 10 THEN "0" ELSE "") \o ToString(d)

(***************************************************************************)
(* The JSON document returned by the Instagram endpoint.                   *)
(*   payload: [kind, graphql, shortcode_media, items]                      *)
(*     kind "falsy" is {} / [] / null, "list" a non-empty JSON array,      *)
(*     "dict" a non-empty object; graphql is "absent", "null" or "dict";   *)
(*     shortcode_media is << >> or <<media>>; items is a tuple of media.   *)
(*   media: [kind, emc, edges, cap, taken_at_timestamp, taken_at, owner,   *)
(*           user, shortcode]                                              *)
(*     kind "dict" is a non-empty object, "empty" is {}, "scalar" a        *)
(*     non-empty non-object; emc says whether edge_media_to_caption is     *)
(*     "absent", "null" or a "dict" whose edges are `edges`.               *)
(*   edge: [isdict, node, nodetext, text]; node is "absent" or "dict".     *)
(*   cap (the "caption" key): [k, text, edges], k in absent/dict/list/str. *)
(*   owner, user: [k, username], k in absent/dict/str.                     *)
(***************************************************************************)
Raise == [st |-> "raise"]
RetNone == [st |-> "none"]

\* int(ts) of a JSON scalar: an int is itself, a str is parsed (ValueError if not a number).
IntLits == {0, 86399, 86400, 172800}
CanInt(ts) == ts.t = "int" \/ (ts.t = "str" /\ \E k \in IntLits : ToString(k) = ts.s)
PyInt(ts) == IF ts.t = "int" THEN ts.n ELSE CHOOSE k \in IntLits : ToString(k) = ts.s

\* lines 78-80 of the scraper (129-131 of the plugin): the caption of a non-empty list.
EdgeCaption(e) ==
    IF ~e.isdict THEN NONE
    ELSE IF e.node = "dict" THEN e.nodetext
    ELSE e.text

\* caption of _parse_instagram_payload, given media.edge_media_to_caption is not null.
Caption(media) ==
    LET emc_edges == IF media.emc = "dict" THEN media.edges ELSE << >>
        from_list == IF emc_edges # << >> THEN EdgeCaption(emc_edges[1])
                     ELSE IF media.cap.k = "list" /\ media.cap.edges # << >>
                          THEN EdgeCaption(media.cap.edges[1])
                     ELSE NONE
    IN IF ~Truthy(from_list) /\ media.cap.k = "dict" THEN media.cap.text ELSE from_list

\* owner = media.get("owner") or media.get("user"); username if owner is a dict.
Username(media) ==
    LET owner == IF media.owner.k # "absent" THEN media.owner ELSE media.user
    IN IF owner.k = "dict" THEN owner.username ELSE NONE

\* The media object _parse_instagram_payload selects: <<media>>, << >>, or Raise.
SelectMedia(payload) ==
    IF payload.kind # "dict" THEN Raise
    ELSE IF payload.graphql = "null" THEN Raise
    ELSE IF payload.graphql = "dict" /\ payload.shortcode_media # << >>
              /\ payload.shortcode_media[1].kind # "empty"
         THEN [st |-> "ok", media |-> payload.shortcode_media]
    ELSE IF payload.items # << >> THEN [st |-> "ok", media |-> <<payload.items[1]>>]
    ELSE [st |-> "ok", media |-> << >>]

\* _parse_instagram_payload(payload, fallback_url): Raise, RetNone or the meta dict.
ParsePayload(payload, fallback_url) ==
    LET sel == SelectMedia(payload)
    IN IF sel.st = "raise" THEN Raise
       ELSE IF sel.media = << >> \/ sel.media[1].kind = "empty" THEN RetNone
       ELSE LET media == sel.media[1]
                ts == PyOrJ(media.taken_at_timestamp, media.taken_at)
            IN IF media.kind # "dict" \/ media.emc = "null" THEN Raise
               ELSE IF TruthyJ(ts) /\ ~CanInt(ts) THEN Raise
               ELSE LET caption == Caption(media)
                        date_str == IF TruthyJ(ts) THEN DateOf(PyInt(ts)) ELSE NONE
                        username == Username(media)
                        permalink == IF TruthyT(media.shortcode) THEN PostUrl(media.shortcode)
                                     ELSE fallback_url
                    IN IF ~(Truthy(caption) \/ Truthy(date_str) \/ Truthy(username)
                                \/ TruthyT(permalink))
                       THEN RetNone
                       ELSE [st |-> "ok",
                             caption |-> PyOr(caption, ""),
                             date |-> date_str,
                             username |-> username,
                             permalink |-> PyOrT(permalink, fallback_url)]

(***************************************************************************)
(* Program state.  Both entrypoints are single sequential runs; pc is the  *)
(* position of the run, the other variables are main()'s locals, the       *)
(* process's standard streams, and the world the run talks to.             *)
(***************************************************************************)
VARIABLES
    raw,         \* the text on standard input
    fs,          \* the sidecar files next to the media files
    ig,          \* the JSON document the Instagram endpoint holds for the post
    catalog,     \* the host catalog behind the GraphQL endpoint: items and tags
    pc,          \* position of the run
    target,      \* (target_type, item_id) of the plugin
    item,        \* the looked-up item of the plugin
    source_url,  \* source_url of the plugin
    url,         \* url of the scraper
    shortcode,   \* shortcode
    meta,        \* meta
    updates,     \* updates of the plugin
    stdout,      \* what the run printed on standard output
    stderr,      \* what the run printed on standard error
    reqs,        \* the HTTP requests the run issued, in order
    runs,        \* number of invocations started so far
    before,      \* the catalog as it was when this invocation started
    snap         \* the first successful plugin run: its number and the catalog it left

vars == <<raw, fs, ig, catalog, pc, target, item, source_url, url, shortcode, meta,
          updates, stdout, stderr, reqs, runs, before, snap>>

\* Number of invocations of the plugin in a row that are explored.
MaxRuns == 2

\* Values of locals that are not assigned yet.
NoTarget == [type |-> NONE, id |-> NONE]
NoItem == [found |-> FALSE, title |-> NONE, date |-> NONE, url |-> NONE_T,
           tags |-> << >>, paths |-> << >>]
NoUpdates == [keys |-> {}, title |-> NONE, date |-> NONE, url |-> NONE_T, tag_ids |-> << >>]
NoUrl == [t |-> "str", u |-> NONE_T]

\* An HTTP request: the GET of a post, or a GraphQL operation on the host.
Req(op, id, name, sc, input) ==
    [op |-> op, id |-> id, name |-> name, shortcode |-> sc, input |-> input]
GetReq(sc) == Req("GET", NONE, NONE, sc, NoUpdates)

(***************************************************************************)
(* instagram_scraper.py                                                    *)
(***************************************************************************)
\* A value of the stdin object's "url"/"URL"/"Url" key: absent, null, a string, a number.
VAbsent == [t |-> "absent", u |-> << >>]
VStr(u) == [t |-> "str", u |-> u]
VNum == [t |-> "num", u |-> << >>]
TruthyV(v) == (v.t = "str" /\ v.u # << >>) \/ v.t = "num"
PyOrV(a, b) == IF TruthyV(a) THEN a ELSE b

RECURSIVE LStrip(_, _)
\* str.lstrip: drop leading tokens that are in chars.
LStrip(t, chars) == IF t # << >> /\ Head(t) \in chars THEN LStrip(Tail(t), chars) ELSE t

RECURSIVE RStrip(_, _)
\* str.rstrip: drop trailing tokens that are in chars.
RStrip(t, chars) ==
    IF t # << >> /\ t[Len(t)] \in chars THEN RStrip(SubSeq(t, 1, Len(t) - 1), chars) ELSE t

\* str.strip() (whitespace) and str.strip('"').
Strip(t, chars) == RStrip(LStrip(t, chars), chars)

\* json.loads of a text that is not an object: a quoted text without inner quotes is a
\* JSON string; the other texts of the model (bare or half-quoted URLs) are not JSON.
IsJsonStr(t) ==
    /\ Len(t) >= 2 /\ t[1] = "\"" /\ t[Len(t)] = "\""
    /\ \A i \in 2..(Len(t) - 1) : t[i] # "\""

\* _read_url
ReadUrl(r) ==
    IF r.kind = "text"
    THEN LET stripped == Strip(r.text, {" "})
         IN IF stripped = << >> THEN VStr(<< >>)
            ELSE IF IsJsonStr(stripped) THEN VStr(SubSeq(stripped, 2, Len(stripped) - 1))
            ELSE VStr(Strip(Strip(stripped, {" "}), {"\""}))
    ELSE IF r.kind = "dict"
    THEN PyOrV(r.url, PyOrV(r.URL, PyOrV(r.Url, VStr(<< >>))))
    ELSE VStr(<< >>)

\* The scraper's result dict; _fail prints the empty one.
EmptyResult == [keys |-> {}, Title |-> NONE, Date |-> NONE, URL |-> NONE_T, Tags |-> << >>]

\* Fragment with the emptiness tests of lines 129 and 135 left out: Title and Tags are
\* always put in the result.
Fragment_NoTests(m) ==
    [keys |-> {"Title", "Tags"}
                \cup (IF Truthy(m.date) THEN {"Date"} ELSE {})
                \cup (IF TruthyT(m.permalink) THEN {"URL"} ELSE {}),
     Title |-> m.caption,
     Date |-> IF Truthy(m.date) THEN m.date ELSE NONE,
     URL |-> IF TruthyT(m.permalink) THEN m.permalink ELSE NONE_T,
     Tags |-> <<[Name |-> m.username]>>]

\* lines 128-136 of the scraper: the fragment built from meta.
Fragment(m) ==
    [keys |-> (IF Truthy(m.caption) THEN {"Title"} ELSE {})
                \cup (IF Truthy(m.date) THEN {"Date"} ELSE {})
                \cup (IF TruthyT(m.permalink) THEN {"URL"} ELSE {})
                \cup (IF Truthy(m.username) THEN {"Tags"} ELSE {}),
     Title |-> IF Truthy(m.caption) THEN m.caption ELSE NONE,
     Date |-> IF Truthy(m.date) THEN m.date ELSE NONE,
     URL |-> IF TruthyT(m.permalink) THEN m.permalink ELSE NONE_T,
     Tags |-> IF Truthy(m.username) THEN <<[Name |-> m.username]>> ELSE << >>]

\* _fail
Fail(msg) ==
    /\ stderr' = Append(stderr, msg)
    /\ stdout' = Append(stdout, EmptyResult)
    /\ pc' = "done"

\* An exception nothing catches: the interpreter prints the traceback on standard error
\* and the process ends without printing anything on standard output.
Crash ==
    /\ stderr' = Append(stderr, "Traceback (most recent call last)")
    /\ pc' = "crashed"
    /\ UNCHANGED stdout

\* The outcomes of requests.get(...) followed by resp.json().
FetchOutcomes == {"exception", "status", "notjson", "ok"}

\* scraper main, lines 107-115: read the URL and extract the shortcode.  A number under
\* "url" reaches SHORTCODE_RE.search and raises TypeError, which nothing catches.
ScraperStart ==
    /\ pc = "start"
    /\ LET u == ReadUrl(raw)
           sc == ExtractShortcode(u.u)
       IN /\ url' = u
          /\ IF u.t = "str" /\ ~TruthyT(u.u)
             THEN Fail("No URL provided to scraper script.") /\ UNCHANGED shortcode
             ELSE IF u.t = "num"
             THEN Crash /\ UNCHANGED shortcode
             ELSE IF ~TruthyT(sc)
             THEN Fail("Could not extract Instagram shortcode from URL") /\ UNCHANGED shortcode
             ELSE pc' = "fetch" /\ shortcode' = sc /\ UNCHANGED <<stdout, stderr>>
    /\ UNCHANGED <<raw, fs, ig, catalog, target, item, source_url, meta, updates, reqs,
                   runs, before, snap>>

\* scraper main, lines 117-138: the GET, the parse and the print.
ScraperFetch ==
    /\ pc = "fetch"
    /\ reqs' = Append(reqs, GetReq(shortcode))
    /\ \E outcome \in FetchOutcomes :
         LET m == ParsePayload(ig, url.u)
         IN IF outcome # "ok" \/ ig.kind = "falsy"
            THEN Fail("Failed to fetch Instagram metadata (check IG_SESSIONID or URL).")
                 /\ UNCHANGED meta
            ELSE IF m.st = "raise"
            THEN Crash /\ UNCHANGED meta
            ELSE IF m.st = "none"
            THEN Fail("Instagram response did not contain expected fields.")
                 /\ UNCHANGED meta
            ELSE /\ meta' = m
                 /\ stdout' = Append(stdout, Fragment(m))
                 /\ pc' = "done"
                 /\ UNCHANGED stderr
    /\ UNCHANGED <<raw, fs, ig, catalog, target, item, source_url, url, shortcode, updates,
                   runs, before, snap>>

(***************************************************************************)
(* Inputs: the Instagram documents and the stdin texts that are explored.  *)
(***************************************************************************)
ENode(text) == [isdict |-> TRUE, node |-> "dict", nodetext |-> text, text |-> NONE]
EText(text) == [isdict |-> TRUE, node |-> "absent", nodetext |-> NONE, text |-> text]
EScalar == [isdict |-> FALSE, node |-> "absent", nodetext |-> NONE, text |-> NONE]

CapAbsent == [k |-> "absent", text |-> NONE, edges |-> << >>]
CapDict(text) == [k |-> "dict", text |-> text, edges |-> << >>]
CapList(edges) == [k |-> "list", text |-> NONE, edges |-> edges]
CapStr == [k |-> "str", text |-> NONE, edges |-> << >>]

\* The shapes of the caption part of a media object: [emc, edges, cap].
CaptionShapes ==
    { [emc |-> "dict", edges |-> <<ENode("Hello")>>, cap |-> CapAbsent],
      [emc |-> "dict", edges |-> << >>, cap |-> CapAbsent],
      [emc |-> "dict", edges |-> <<ENode("")>>, cap |-> CapDict("Hello")],
      [emc |-> "dict", edges |-> <<EScalar>>, cap |-> CapAbsent],
      [emc |-> "null", edges |-> << >>, cap |-> CapAbsent],
      [emc |-> "absent", edges |-> << >>, cap |-> CapDict("Hello")],
      [emc |-> "absent", edges |-> << >>, cap |-> CapDict(NONE)],
      [emc |-> "absent", edges |-> << >>, cap |-> CapList(<<EText("Hello")>>)],
      [emc |-> "absent", edges |-> << >>, cap |-> CapStr] }

\* The shapes of the timestamp part: [taken_at_timestamp, taken_at].
TimeShapes ==
    { <<JNull, JNull>>, <<JInt(0), JNull>>, <<JInt(86400), JNull>>, <<JNull, JInt(86399)>>,
      <<JInt(0), JInt(172800)>>, <<JStr("86400"), JNull>>, <<JStr("soon"), JNull>> }

OwnAbsent == [k |-> "absent", username |-> NONE]
OwnDict(name) == [k |-> "dict", username |-> name]
OwnStr == [k |-> "str", username |-> NONE]

\* The shapes of the author part: [owner, user].
OwnerShapes ==
    { <<OwnAbsent, OwnAbsent>>, <<OwnDict("alice"), OwnAbsent>>, <<OwnAbsent, OwnDict("bob")>>,
      <<OwnDict(""), OwnDict("bob")>>, <<OwnStr, OwnDict("bob")>> }

\* The media "shortcode": absent, five characters, or three.
CodeShapes == { NONE_T, <<"Zq9-_">>, <<"Dy8">> }

MkMedia(c, t, o, sc) ==
    [kind |-> "dict", emc |-> c.emc, edges |-> c.edges, cap |-> c.cap,
     taken_at_timestamp |-> t[1], taken_at |-> t[2], owner |-> o[1], user |-> o[2],
     shortcode |-> sc]

AllMedia == { MkMedia(c, t, o, sc) : c \in CaptionShapes, t \in TimeShapes,
                                      o \in OwnerShapes, sc \in CodeShapes }

\* A media object that is {} and one that is a number.
EmptyMedia ==
    [MkMedia([emc |-> "absent", edges |-> << >>, cap |-> CapAbsent], <<JNull, JNull>>,
             <<OwnAbsent, OwnAbsent>>, NONE_T)
     EXCEPT !.kind = "empty"]
ScalarMedia == [EmptyMedia EXCEPT !.kind = "scalar"]

Legacy(m) == [kind |-> "dict", graphql |-> "dict", shortcode_media |-> <<m>>, items |-> << >>]
Items(ms) == [kind |-> "dict", graphql |-> "absent", shortcode_media |-> << >>, items |-> ms]

\* Documents that are not a post in either layout.
OddPayloads ==
    { [kind |-> "falsy", graphql |-> "absent", shortcode_media |-> << >>, items |-> << >>],
      [kind |-> "list", graphql |-> "absent", shortcode_media |-> << >>, items |-> << >>],
      [kind |-> "dict", graphql |-> "null", shortcode_media |-> << >>, items |-> << >>],
      [kind |-> "dict", graphql |-> "dict", shortcode_media |-> << >>, items |-> << >>],
      Items(<< >>), Items(<<EmptyMedia>>), Items(<<ScalarMedia>>),
      Legacy(ScalarMedia) }

\* The documents the scraper is run against.
ScraperPayloads ==
    { Legacy(m) : m \in AllMedia }
        \cup { Items(<<m>>) : m \in { x \in AllMedia : x.emc = "absent" /\ x.owner.k = "absent" } }
        \cup OddPayloads

\* Token tuples used as URLs.
UrlA == PostUrl(<<"Cx7_-">>)
UrlReel == <<"https://www.", "instagram", ".", "com", "/", "reel", "/", "Dy8", "ab", "?", "ab">>
UrlShort == PostUrl(<<"Dy8">>)
UrlOther == <<"https://www.", "example", ".", "com", "/", "ab">>
UrlBack == <<"instagram", "\\", ".", "com", "/", "tv", "/", "Cx7_-">>

ScraperText(t) == [kind |-> "text", text |-> t, url |-> VAbsent, URL |-> VAbsent, Url |-> VAbsent]
ScraperDict(a, b, c) == [kind |-> "dict", text |-> << >>, url |-> a, URL |-> b, Url |-> c]

\* The stdin texts the scraper is run on.
ScraperInputs ==
    { ScraperText(<< >>), ScraperText(<<" ">>), ScraperText(<<" ">> \o UrlA \o <<" ">>),
      ScraperText(<<"\"">> \o UrlA \o <<"\"">>), ScraperText(<<"\"">> \o UrlReel),
      ScraperText(UrlOther), ScraperText(UrlShort), ScraperText(UrlBack),
      ScraperDict(VStr(UrlA), VAbsent, VAbsent), ScraperDict(VAbsent, VStr(UrlReel), VAbsent),
      ScraperDict(VStr(<< >>), VAbsent, VStr(UrlA)), ScraperDict(VAbsent, VAbsent, VAbsent),
      ScraperDict(VNum, VAbsent, VAbsent), ScraperDict(VStr(UrlOther), VStr(UrlA), VAbsent),
      [kind |-> "other", text |-> << >>, url |-> VAbsent, URL |-> VAbsent, Url |-> VAbsent] }

NoCatalog == [items |-> << >>, tags |-> << >>]
NoSnap == [run |-> 0, catalog |-> NoCatalog]
NoMeta == [st |-> "unset"]

InitScraper ==
    /\ raw \in ScraperInputs
    /\ ig \in ScraperPayloads
    /\ fs = << >>
    /\ catalog = NoCatalog
    /\ pc = "start"
    /\ target = NoTarget
    /\ item = NoItem
    /\ source_url = NONE_T
    /\ url = NoUrl
    /\ shortcode = NONE_T
    /\ meta = NoMeta
    /\ updates = NoUpdates
    /\ stdout = << >>
    /\ stderr = << >>
    /\ reqs = << >>
    /\ runs = 1
    /\ before = NoCatalog
    /\ snap = NoSnap

NextScraper == ScraperStart \/ ScraperFetch

SpecScraper == InitScraper /\ [][NextScraper]_vars

(***************************************************************************)
(* Properties of the scraper.                                              *)
(***************************************************************************)
\* The run is over: main returned, or an exception ended the process.
Ended == pc \in {"done", "crashed"}

\* The scraper printed a fragment built from a parsed post.
ScraperSucceeded == pc = "done" /\ meta # NoMeta

\* C2: every run of the scraper, whatever is on stdin, whatever the outcome of the
\* request and whatever the shape of the returned JSON, prints exactly one JSON object
\* on standard output: {} after a diagnostic line on standard error on a failure path,
\* the fragment otherwise.
C2_ExactlyOneJsonObject ==
    Ended =>
        /\ Len(stdout) = 1
        /\ (~ScraperSucceeded => stdout[1] = EmptyResult /\ Len(stderr) = 1)
        /\ (ScraperSucceeded => Len(stderr) = 0)

\* The media object of the post and its first truthy timestamp.
PostMedia == SelectMedia(ig).media[1]
PostTimestamp == IF TruthyJ(PostMedia.taken_at_timestamp) THEN PostMedia.taken_at_timestamp
                 ELSE PostMedia.taken_at

\* C8: on a successful run the scraper prints one fragment whose keys are among Title,
\* Date, URL, Tags: Title is there iff the caption is non-empty and is the caption; Date
\* is there iff the post has a timestamp (null and 0 count as none) and is its UTC day;
\* URL is the permalink, built from the post's own shortcode when it has one and the
\* input URL otherwise; Tags is there iff a username was found and is [{"Name": username}].
C8_FragmentKeys ==
    ScraperSucceeded =>
        /\ Len(stdout) = 1
        /\ stdout[1].keys \subseteq {"Title", "Date", "URL", "Tags"}
        /\ ("Title" \in stdout[1].keys) = (meta.caption # "")
        /\ ("Title" \in stdout[1].keys => stdout[1].Title = meta.caption)
        /\ ("Date" \in stdout[1].keys) = TruthyJ(PostTimestamp)
        /\ ("Date" \in stdout[1].keys => stdout[1].Date = DateOf(PyInt(PostTimestamp)))
        /\ "URL" \in stdout[1].keys
        /\ stdout[1].URL = (IF PostMedia.shortcode \notin {NONE_T, << >>}
                            THEN PostUrl(PostMedia.shortcode) ELSE url.u)
        /\ ("Tags" \in stdout[1].keys) = (meta.username \notin {NONE, ""})
        /\ ("Tags" \in stdout[1].keys => stdout[1].Tags = <<[Name |-> meta.username]>>)

\* C8 witness: a successful run on a post without caption and author, from the items
\* layout, whose fragment holds the date and the input URL only.
C8_Witness ==
    /\ ScraperSucceeded
    /\ ig.graphql = "absent"
    /\ stdout[1].keys = {"Date", "URL"}
    /\ stdout[1].URL = UrlA

(***************************************************************************)
(* instagram_meta.py                                                       *)
(*   stdin: [kind, hook_ctx, args]; kind "invalid" is not JSON,            *)
(*     "nonobject" is JSON but not an object, "object" the plugin input.   *)
(*   hook_ctx: [isdict, type, typename, id, sceneId, scene_id, sceneID,    *)
(*     imageId, image_id, imageID], JSON scalars (typename is __typename). *)
(*   args: [target_type, type, target_id, id, overwrite, url].             *)
(***************************************************************************)
\* line 75: the hookContext keys, in the order they are tried.
HookKeys == << <<"sceneId", "Scene">>, <<"scene_id", "Scene">>, <<"sceneID", "Scene">>,
               <<"imageId", "Image">>, <<"image_id", "Image">>, <<"imageID", "Image">> >>

\* x in ("Scene", "Image")
IsTargetType(v) == v.t = "str" /\ v.s \in {"Scene", "Image"}

\* _detect_target with the args tried before hookContext.
DetectTarget_ArgsFirst(h, a) ==
    LET ctx_type == PyOrJ(Get(h.type), Get(h.typename))
        ctx_id == Get(h.id)
        present == { k \in 1..Len(HookKeys) : h[HookKeys[k][1]].t # "absent" }
        first == CHOOSE k \in present : \A j \in present : k <= j
        target_type == PyOrJ(Get(a.target_type), Get(a.type))
        target_id == PyOrJ(Get(a.target_id), Get(a.id))
    IN IF IsTargetType(target_type) /\ TruthyJ(target_id)
       THEN [st |-> "ok", type |-> target_type.s, id |-> PyStr(target_id)]
       ELSE IF h.isdict /\ IsTargetType(ctx_type) /\ TruthyJ(ctx_id)
       THEN [st |-> "ok", type |-> ctx_type.s, id |-> PyStr(ctx_id)]
       ELSE IF h.isdict /\ present # {}
       THEN [st |-> "ok", type |-> HookKeys[first][2], id |-> PyStr(h[HookKeys[first][1]])]
       ELSE Raise

\* _detect_target: [st |-> "ok", type, id], or Raise (the RuntimeError).
DetectTarget(h, a) ==
    LET ctx_type == PyOrJ(Get(h.type), Get(h.typename))
        ctx_id == Get(h.id)
        present == { k \in 1..Len(HookKeys) : h[HookKeys[k][1]].t # "absent" }
        first == CHOOSE k \in present : \A j \in present : k <= j
        target_type == PyOrJ(Get(a.target_type), Get(a.type))
        target_id == PyOrJ(Get(a.target_id), Get(a.id))
    IN IF h.isdict /\ IsTargetType(ctx_type) /\ TruthyJ(ctx_id)
       THEN [st |-> "ok", type |-> ctx_type.s, id |-> PyStr(ctx_id)]
       ELSE IF h.isdict /\ present # {}
       THEN [st |-> "ok", type |-> HookKeys[first][2], id |-> PyStr(h[HookKeys[first][1]])]
       ELSE IF IsTargetType(target_type) /\ TruthyJ(target_id)
       THEN [st |-> "ok", type |-> target_type.s, id |-> PyStr(target_id)]
       ELSE Raise

(***************************************************************************)
(* Sidecar files.  fs maps a media path to [info, json], the files         *)
(* <path>.info.json and <path>.json; each is [k, data] with k "absent",    *)
(* "corrupt" (unreadable or not JSON) or "data".  data is                  *)
(* [kind, webpage_url, permalink, url, shortcode, shortcode_id] with kind  *)
(* "dict", "empty" ({}) or "list" (a non-empty JSON array).                *)
(***************************************************************************)
RECURSIVE LoadSidecarData(_, _)
\* _load_sidecar_data: << >> (None) or <<data>>, the first candidate that exists and parses.
LoadSidecarData(files, paths) ==
    IF paths = << >> THEN << >>
    ELSE LET f == files[Head(paths)]
         IN IF f.info.k = "data" THEN <<f.info.data>>
            ELSE IF f.json.k = "data" THEN <<f.json.data>>
            ELSE LoadSidecarData(files, Tail(paths))

\* _sidecar_to_url: [st |-> "ok", url], or Raise when data has no .get (a JSON array).
SidecarToUrl(data) ==
    IF data.kind # "dict" THEN Raise
    ELSE IF TruthyT(data.webpage_url) THEN [st |-> "ok", url |-> data.webpage_url]
    ELSE IF TruthyT(data.permalink) THEN [st |-> "ok", url |-> data.permalink]
    ELSE IF TruthyT(data.url) THEN [st |-> "ok", url |-> data.url]
    ELSE LET sc == PyOrT(data.shortcode, data.shortcode_id)
         IN IF TruthyT(sc) THEN [st |-> "ok", url |-> PostUrl(sc)]
            ELSE [st |-> "ok", url |-> NONE_T]

\* lines 280-287: the paths of the item's media files.
FilePaths(it) == SelectSeq(it.paths, LAMBDA q : q # "")

\* lines 289-290: sidecar_url, or Raise.
SidecarUrl(files, it) ==
    LET sidecar_data == LoadSidecarData(files, FilePaths(it))
    IN IF sidecar_data = << >> \/ sidecar_data[1].kind = "empty"
       THEN [st |-> "ok", url |-> NONE_T]
       ELSE SidecarToUrl(sidecar_data[1])

\* line 292 with the item's URL tried before args.url.
ResolveUrl_ItemFirst(user_url, current_url, sidecar_url) ==
    PyOrT(current_url, PyOrT(user_url, sidecar_url))

\* line 292: source_url = user_url or current_url or sidecar_url
ResolveUrl(user_url, current_url, sidecar_url) == PyOrT(user_url, PyOrT(current_url, sidecar_url))

(***************************************************************************)
(* The host catalog: items is a function from <<type, id>> to              *)
(* [title, date, url, tags, paths] (tags a tuple of tag ids), tags is the  *)
(* tuple of the catalog's tags [id, name].                                 *)
(***************************************************************************)
\* _get_item: the item of that type and id, or null.
FindItem(cat, type, id) ==
    IF <<type, id>> \in DOMAIN cat.items
    THEN LET it == cat.items[<<type, id>>]
         IN [found |-> TRUE, title |-> it.title, date |-> it.date, url |-> it.url,
             tags |-> it.tags, paths |-> it.paths]
    ELSE NoItem

\* An allTags query whose filter matches nothing.
TagsNamed_Never(cat, name) == SelectSeq(cat.tags, LAMBDA tg : FALSE)

\* allTags(filter: {name: {equals: $name}})
TagsNamed(cat, name) == SelectSeq(cat.tags, LAMBDA tg : tg.name = name)

\* tagCreate: the host gives the new tag the next id.
NewTagId(cat) == ToString(Len(cat.tags) + 1)
CreateTag(cat, name) == [cat EXCEPT !.tags = Append(@, [id |-> NewTagId(cat), name |-> name])]

\* sceneUpdate / imageUpdate: the host sets the fields the input holds; an item that
\* does not exist is an error of the mutation.
ApplyUpdate(cat, type, id, input) ==
    IF <<type, id>> \notin DOMAIN cat.items THEN cat ELSE
    [cat EXCEPT !.items[<<type, id>>] =
        [title |-> IF "title" \in input.keys THEN input.title ELSE @.title,
         date |-> IF "date" \in input.keys THEN input.date ELSE @.date,
         url |-> IF "url" \in input.keys THEN input.url ELSE @.url,
         tags |-> IF "tag_ids" \in input.keys THEN input.tag_ids ELSE @.tags,
         paths |-> @.paths]]

\* lines 312-318 with the test of line 317 inverted: url is written when the item has one.
ComputeUpdates_UrlInverted(overwrite, it, m) ==
    [keys |-> (IF overwrite \/ ~Truthy(it.title) THEN {"title"} ELSE {})
                \cup (IF Truthy(m.date) /\ (overwrite \/ ~Truthy(it.date)) THEN {"date"} ELSE {})
                \cup (IF overwrite \/ TruthyT(it.url) THEN {"url"} ELSE {}),
     title |-> IF overwrite \/ ~Truthy(it.title) THEN m.caption ELSE NONE,
     date |-> IF Truthy(m.date) /\ (overwrite \/ ~Truthy(it.date)) THEN m.date ELSE NONE,
     url |-> IF overwrite \/ TruthyT(it.url) THEN m.permalink ELSE NONE_T,
     tag_ids |-> it.tags]

\* lines 312-318 and 321: the updates dict, with tag_ids holding the local tag_ids.
ComputeUpdates(overwrite, it, m) ==
    [keys |-> (IF overwrite \/ ~Truthy(it.title) THEN {"title"} ELSE {})
                \cup (IF Truthy(m.date) /\ (overwrite \/ ~Truthy(it.date)) THEN {"date"} ELSE {})
                \cup (IF overwrite \/ ~TruthyT(it.url) THEN {"url"} ELSE {}),
     title |-> IF overwrite \/ ~Truthy(it.title) THEN m.caption ELSE NONE,
     date |-> IF Truthy(m.date) /\ (overwrite \/ ~Truthy(it.date)) THEN m.date ELSE NONE,
     url |-> IF overwrite \/ ~TruthyT(it.url) THEN m.permalink ELSE NONE_T,
     tag_ids |-> it.tags]

\* lines 324-326 without the membership test of line 324.
WithTag_AlwaysAppend(u, username_tag) ==
    [u EXCEPT !.keys = @ \cup {"tag_ids"}, !.tag_ids = Append(@, username_tag)]

\* lines 324-326: append the username tag unless it is there, and put tag_ids in updates.
WithTag(u, username_tag) ==
    [u EXCEPT !.keys = @ \cup {"tag_ids"},
              !.tag_ids = IF \E i \in 1..Len(@) : @[i] = username_tag
                          THEN @ ELSE Append(@, username_tag)]

\* line 245: the mutation's input holds the updates that are not None.
UpdateInput(u) ==
    [u EXCEPT !.keys = { k \in @ : CASE k = "title" -> u.title # NONE
                                     [] k = "date" -> u.date # NONE
                                     [] k = "url" -> u.url # NONE_T
                                     [] OTHER -> TRUE }]

\* _respond: the JSON object printed on standard output.
Output(message, error) == [output |-> message, error |-> IF error THEN message ELSE NONE]

\* _respond(message, error=True) without the return: main goes on to the update.
RespondError_NoReturn(message) ==
    /\ stdout' = Append(stdout, Output(message, TRUE))
    /\ pc' = "update"

\* _respond(message, error=True); return
RespondError(message) ==
    /\ stdout' = Append(stdout, Output(message, TRUE))
    /\ pc' = "done"

\* The outcomes of _graphql: an exception (transport error, HTTP error status, "errors" in
\* the answer), the answer, or, for a mutation, the host acting and the answer being lost.
QueryOutcomes == {"fail", "ok"}
MutationOutcomes == {"fail", "ok", "lost"}

\* lines 269-270: overwrite and user_url.
Overwrite(a) == TruthyJ(Get(a.overwrite))
UserUrl(a) == PyOrT(a.url, << >>)

\* The GraphQL field _get_item queries.
FindOp(type) == IF type = "Scene" THEN "findScene" ELSE "findImage"

\* _update_item always sending the Scene mutation.
UpdateOp_SceneOnly(type) == "sceneUpdate"

\* The GraphQL field _update_item mutates.
UpdateOp(type) == IF type = "Scene" THEN "sceneUpdate" ELSE "imageUpdate"

\* plugin main, lines 251-267: parse standard input and detect the target.  Input that
\* is JSON but not an object has no .get: AttributeError, which nothing catches.
PluginStart ==
    /\ pc = "start"
    /\ IF raw.kind = "invalid"
       THEN RespondError("Failed to parse input JSON") /\ UNCHANGED <<target, stderr>>
       ELSE IF raw.kind = "nonobject"
       THEN Crash /\ UNCHANGED target
       ELSE LET d == DetectTarget(raw.hook_ctx, raw.args)
            IN IF d.st = "raise"
               THEN RespondError("Unable to determine target Scene/Image id from hookContext or args.")
                    /\ UNCHANGED <<target, stderr>>
               ELSE /\ target' = [type |-> d.type, id |-> d.id]
                    /\ pc' = "lookup"
                    /\ UNCHANGED <<stdout, stderr>>
    /\ UNCHANGED <<raw, fs, ig, catalog, item, source_url, url, shortcode, meta, updates,
                   reqs, runs, before, snap>>

\* plugin main, lines 273-300: look the item up, resolve the source URL, extract the
\* shortcode.  _graphql and _sidecar_to_url are called outside any try.
PluginLookup ==
    /\ pc = "lookup"
    /\ reqs' = Append(reqs, Req(FindOp(target.type), target.id, NONE, NONE_T, NoUpdates))
    /\ \E outcome \in QueryOutcomes :
         LET it == FindItem(catalog, target.type, target.id)
             sidecar_url == SidecarUrl(fs, it)
             src == ResolveUrl(UserUrl(raw.args), PyOrT(it.url, << >>), sidecar_url.url)
             sc == ExtractShortcode(src)
         IN IF outcome = "fail"
            THEN Crash /\ UNCHANGED <<item, source_url, shortcode>>
            ELSE IF ~it.found
            THEN RespondError("not found") /\ UNCHANGED <<item, source_url, shortcode, stderr>>
            ELSE IF sidecar_url.st = "raise"
            THEN Crash /\ item' = it /\ UNCHANGED <<source_url, shortcode>>
            ELSE IF ~TruthyT(src)
            THEN /\ RespondError("No Instagram URL found (provide args.url or ensure item.url/sidecar contains it).")
                 /\ item' = it /\ source_url' = src
                 /\ UNCHANGED <<shortcode, stderr>>
            ELSE IF ~TruthyT(sc)
            THEN /\ RespondError("Could not extract shortcode from URL")
                 /\ item' = it /\ source_url' = src
                 /\ UNCHANGED <<shortcode, stderr>>
            ELSE /\ item' = it /\ source_url' = src /\ shortcode' = sc
                 /\ pc' = "fetch"
                 /\ UNCHANGED <<stdout, stderr>>
    /\ UNCHANGED <<raw, fs, ig, catalog, target, url, meta, updates, runs, before, snap>>

\* plugin main, lines 302-322: the GET (requests.get is called outside any try), the
\* parse, and the updates dict.
PluginFetch ==
    /\ pc = "fetch"
    /\ reqs' = Append(reqs, GetReq(shortcode))
    /\ \E outcome \in FetchOutcomes :
         LET m == ParsePayload(ig, source_url)
         IN IF outcome = "exception"
            THEN Crash /\ UNCHANGED <<meta, updates>>
            ELSE IF outcome = "status"
            THEN /\ stderr' = Append(stderr, "Instagram request failed")
                 /\ RespondError("Failed to fetch Instagram metadata (check ig_sessionid or URL).")
                 /\ UNCHANGED <<meta, updates>>
            ELSE IF outcome = "notjson"
            THEN /\ stderr' = Append(stderr, "Failed to decode Instagram JSON")
                 /\ RespondError("Failed to fetch Instagram metadata (check ig_sessionid or URL).")
                 /\ UNCHANGED <<meta, updates>>
            ELSE IF ig.kind = "falsy"
            THEN /\ RespondError("Failed to fetch Instagram metadata (check ig_sessionid or URL).")
                 /\ UNCHANGED <<meta, updates, stderr>>
            ELSE IF m.st = "raise"
            THEN Crash /\ UNCHANGED <<meta, updates>>
            ELSE IF m.st = "none"
            THEN /\ RespondError("Instagram response did not contain expected fields.")
                 /\ UNCHANGED <<meta, updates, stderr>>
            ELSE /\ meta' = m
                 /\ updates' = ComputeUpdates(Overwrite(raw.args), item, m)
                 /\ pc' = IF Truthy(m.username) THEN "taglookup" ELSE "update"
                 /\ UNCHANGED <<stdout, stderr>>
    /\ UNCHANGED <<raw, fs, ig, catalog, target, item, source_url, url, shortcode, runs, before, snap>>

\* _ensure_tag, lines 185-193: the allTags query.
PluginTagLookup ==
    /\ pc = "taglookup"
    /\ reqs' = Append(reqs, Req("allTags", NONE, meta.username, NONE_T, NoUpdates))
    /\ \E outcome \in QueryOutcomes :
         LET existing == TagsNamed(catalog, meta.username)
         IN IF outcome = "fail"
            THEN Crash /\ UNCHANGED updates
            ELSE IF existing # << >>
            THEN /\ updates' = WithTag(updates, existing[1].id)
                 /\ pc' = "update"
                 /\ UNCHANGED <<stdout, stderr>>
            ELSE /\ pc' = "tagcreate"
                 /\ UNCHANGED <<updates, stdout, stderr>>
    /\ UNCHANGED <<raw, fs, ig, catalog, target, item, source_url, url, shortcode, meta,
                   runs, before, snap>>

\* _ensure_tag, lines 194-200: the tagCreate mutation.
PluginTagCreate ==
    /\ pc = "tagcreate"
    /\ reqs' = Append(reqs, Req("tagCreate", NONE, meta.username, NONE_T, NoUpdates))
    /\ \E outcome \in MutationOutcomes :
         IF outcome = "fail"
         THEN Crash /\ UNCHANGED <<catalog, updates>>
         ELSE IF outcome = "lost"
         THEN Crash /\ catalog' = CreateTag(catalog, meta.username) /\ UNCHANGED updates
         ELSE /\ catalog' = CreateTag(catalog, meta.username)
              /\ updates' = WithTag(updates, NewTagId(catalog))
              /\ pc' = "update"
              /\ UNCHANGED <<stdout, stderr>>
    /\ UNCHANGED <<raw, fs, ig, target, item, source_url, url, shortcode, meta, runs, before, snap>>

\* plugin main, lines 328-338: the update mutation and the summary.
PluginUpdate ==
    /\ pc = "update"
    /\ reqs' = Append(reqs, Req(UpdateOp(target.type), target.id, NONE, NONE_T,
                                UpdateInput(updates)))
    /\ \E outcome \in MutationOutcomes :
         LET done == ApplyUpdate(catalog, target.type, target.id, UpdateInput(updates))
         IN IF outcome = "fail" \/ <<target.type, target.id>> \notin DOMAIN catalog.items
            THEN Crash /\ UNCHANGED <<catalog, snap>>
            ELSE IF outcome = "lost"
            THEN Crash /\ catalog' = done /\ UNCHANGED snap
            ELSE /\ catalog' = done
                 /\ stdout' = Append(stdout, Output("Updated Instagram metadata", FALSE))
                 /\ pc' = "done"
                 /\ snap' = IF snap.run = 0 THEN [run |-> runs, catalog |-> done] ELSE snap
                 /\ UNCHANGED stderr
    /\ UNCHANGED <<raw, fs, ig, target, item, source_url, url, shortcode, meta, updates, runs,
                   before>>

\* The host runs the plugin again on the same input: a new process, the same catalog.
PluginRerun ==
    /\ pc \in {"done", "crashed"}
    /\ runs < MaxRuns
    /\ runs' = runs + 1
    /\ pc' = "start"
    /\ target' = NoTarget
    /\ item' = NoItem
    /\ source_url' = NONE_T
    /\ shortcode' = NONE_T
    /\ meta' = NoMeta
    /\ updates' = NoUpdates
    /\ stdout' = << >>
    /\ stderr' = << >>
    /\ reqs' = << >>
    /\ before' = catalog
    /\ UNCHANGED <<raw, fs, ig, catalog, url, snap>>

Next ==
    \/ PluginStart
    \/ PluginLookup
    \/ PluginFetch
    \/ PluginTagLookup
    \/ PluginTagCreate
    \/ PluginUpdate
    \/ PluginRerun

(***************************************************************************)
(* Inputs of the plugin: stdin objects, catalogs, sidecar files, posts.    *)
(***************************************************************************)
NoHook == [isdict |-> TRUE, type |-> JAbsent, typename |-> JAbsent, id |-> JAbsent,
           sceneId |-> JAbsent, scene_id |-> JAbsent, sceneID |-> JAbsent,
           imageId |-> JAbsent, image_id |-> JAbsent, imageID |-> JAbsent]
NoArgs == [target_type |-> JAbsent, type |-> JAbsent, target_id |-> JAbsent, id |-> JAbsent,
           overwrite |-> JAbsent, url |-> NONE_T]

PluginInput(h, a) == [kind |-> "object", hook_ctx |-> h, args |-> a]
BadInput(kind) == [kind |-> kind, hook_ctx |-> NoHook, args |-> NoArgs]

\* args naming a Scene by target_type/target_id, and a hookContext naming an Image.
SceneArgs == [NoArgs EXCEPT !.target_type = JStr("Scene"), !.target_id = JInt(1)]
ImageHook == [NoHook EXCEPT !.type = JStr("Image"), !.id = JStr("1")]

\* The tags of the catalog, and four ways the item is tagged.
Landscape == [id |-> "1", name |-> "landscape"]
Alice == [id |-> "2", name |-> "alice"]
TagConfigs ==
    { [all |-> <<Landscape>>, of_item |-> << >>],
      [all |-> <<Landscape>>, of_item |-> <<"1">>],
      [all |-> <<Landscape, Alice>>, of_item |-> <<"1">>],
      [all |-> <<Landscape, Alice>>, of_item |-> <<"2", "1">>] }

\* A catalog with Scene 1 (two files) and Image 1 (one file) holding the same fields.
MkCatalog(title, date, u, tg) ==
    [items |-> [k \in {<<"Scene", "1">>, <<"Image", "1">>} |->
                   [title |-> title, date |-> date, url |-> u, tags |-> tg.of_item,
                    paths |-> IF k[1] = "Scene" THEN <<"a.mp4", "b.mp4">> ELSE <<"c.jpg">>]],
     tags |-> tg.all]

\* Sidecar contents.
SdNone == [kind |-> "dict", webpage_url |-> NONE_T, permalink |-> NONE_T, url |-> NONE_T,
           shortcode |-> NONE_T, shortcode_id |-> NONE_T]
SdAbsent == [k |-> "absent", data |-> SdNone]
SdCorrupt == [k |-> "corrupt", data |-> SdNone]
SdData(d) == [k |-> "data", data |-> d]
NoSidecar == [info |-> SdAbsent, json |-> SdAbsent]

\* Sidecar files of the first file (a.mp4, and c.jpg alike) and of the second (b.mp4).
MkFs(first, second) ==
    [q \in {"a.mp4", "b.mp4", "c.jpg"} |-> IF q = "b.mp4" THEN second ELSE first]

FileSets ==
    { MkFs(NoSidecar, NoSidecar),
      MkFs([info |-> SdData([SdNone EXCEPT !.webpage_url = UrlA]), json |-> SdAbsent], NoSidecar),
      MkFs([info |-> SdCorrupt, json |-> SdData([SdNone EXCEPT !.shortcode = <<"Cx7_-">>])],
           NoSidecar),
      MkFs(NoSidecar, [info |-> SdAbsent, json |-> SdData([SdNone EXCEPT !.permalink = UrlReel])]),
      MkFs([info |-> SdData([SdNone EXCEPT !.kind = "list"]), json |-> SdAbsent], NoSidecar),
      MkFs([info |-> SdData([SdNone EXCEPT !.kind = "empty"]), json |-> SdAbsent],
           [info |-> SdData([SdNone EXCEPT !.url = UrlA]), json |-> SdAbsent]),
      MkFs([info |-> SdAbsent, json |-> SdData([SdNone EXCEPT !.shortcode_id = <<"Dy8">>])],
           NoSidecar),
      MkFs([info |-> SdData([SdNone EXCEPT !.url = UrlOther]), json |-> SdAbsent], NoSidecar) }

\* The posts the plugin is run against.
PluginMedia ==
    { m \in AllMedia :
        /\ m.emc = "dict" /\ m.cap.k = "absent" /\ (m.edges = << >> \/ m.edges[1].isdict)
        /\ m.taken_at = JNull /\ m.taken_at_timestamp \in {JNull, JInt(86400)}
        /\ m.user.k = "absent" /\ m.owner.k \in {"absent", "dict"}
        /\ m.shortcode # <<"Dy8">> }
PluginPayloads ==
    { Legacy(m) : m \in PluginMedia }
        \cup { x \in OddPayloads : x.kind = "falsy" \/ x.graphql = "null" \/ x = Items(<< >>) }

\* A world: what is on stdin, in the catalog, on disk, and at Instagram.
World(r, c, f, g) == [raw |-> r, catalog |-> c, fs |-> f, ig |-> g]

\* Worlds that vary the item's fields, its tags, overwrite and the post.
UpdateWorlds ==
    { World(PluginInput(h, [a EXCEPT !.overwrite = ow, !.url = uu]),
            MkCatalog(title, date, u, tg), MkFs(NoSidecar, NoSidecar), g) :
        h \in {NoHook, ImageHook}, a \in {SceneArgs}, ow \in {JAbsent, JBool(FALSE), JBool(TRUE)},
        uu \in {NONE_T, UrlA}, title \in {"", "Old title"}, date \in {"", "2020-05-05"},
        u \in {<< >>, UrlReel}, tg \in TagConfigs, g \in PluginPayloads }

\* Worlds in which the run ends before the item lookup or finds no item.
EarlyWorlds ==
    { World(r, MkCatalog("", "", UrlA, CHOOSE tg \in TagConfigs : tg.of_item = << >>),
            MkFs(NoSidecar, NoSidecar), Legacy(CHOOSE m \in PluginMedia : TRUE)) :
        r \in { BadInput("invalid"), BadInput("nonobject"), PluginInput(NoHook, NoArgs),
                PluginInput([NoHook EXCEPT !.sceneId = JNull], SceneArgs),
                PluginInput(NoHook, [SceneArgs EXCEPT !.target_id = JInt(2)]) } }

\* A post with a caption, a date, an author and a shortcode, and one with an author only.
FullPost ==
    Legacy(MkMedia([emc |-> "dict", edges |-> <<ENode("Hello")>>, cap |-> CapAbsent],
                   <<JInt(86400), JNull>>, <<OwnDict("alice"), OwnAbsent>>, <<"Zq9-_">>))
BarePost ==
    Legacy(MkMedia([emc |-> "dict", edges |-> << >>, cap |-> CapAbsent],
                   <<JNull, JNull>>, <<OwnDict("alice"), OwnAbsent>>, NONE_T))

\* Worlds that vary the three places the source URL can come from.
UrlWorlds ==
    { World(PluginInput(h, [SceneArgs EXCEPT !.overwrite = ow, !.url = uu]),
            MkCatalog("", "2020-05-05", u, CHOOSE tg \in TagConfigs : tg.of_item = << >>), f, g) :
        h \in {NoHook, ImageHook}, ow \in {JAbsent, JBool(TRUE)},
        uu \in {NONE_T, << >>, UrlA, UrlOther}, u \in {NONE_T, << >>, UrlReel, UrlOther, UrlShort},
        f \in FileSets, g \in {FullPost, BarePost} }

\* Worlds that vary hookContext and the target arguments.
HookTargets ==
    { [NoHook EXCEPT !.type = ty, !.typename = tn, !.id = i] :
        ty \in {JAbsent, JNull, JStr("Scene"), JStr("Other")}, tn \in {JAbsent, JStr("Image")},
        i \in {JAbsent, JInt(0), JInt(1)} }
WithHookKey(h) ==
    {h} \cup { [h EXCEPT ![HookKeys[k][1]] = v] : k \in 1..Len(HookKeys), v \in {JInt(1), JNull} }
        \cup { [h EXCEPT !.sceneID = JInt(2), !.imageId = JInt(1)] }
Hooks ==
    UNION { WithHookKey(h) : h \in HookTargets }
        \cup { [NoHook EXCEPT !.isdict = FALSE] }
TargetArgs ==
    { [NoArgs EXCEPT !.target_type = tt, !.type = ty, !.target_id = ti, !.id = i] :
        tt \in {JAbsent, JStr("Image"), JStr("Other")}, ty \in {JAbsent, JStr("Scene")},
        ti \in {JAbsent, JInt(0), JInt(1)}, i \in {JAbsent, JStr("1")} }
TargetWorlds ==
    { World(PluginInput(h, a),
            MkCatalog("", "", UrlA, CHOOSE tg \in TagConfigs : tg.of_item = << >>),
            MkFs(NoSidecar, NoSidecar), FullPost) :
        h \in Hooks, a \in TargetArgs }

InitWorld(worlds) ==
    /\ \E w \in worlds : raw = w.raw /\ catalog = w.catalog /\ fs = w.fs /\ ig = w.ig
    /\ pc = "start"
    /\ target = NoTarget
    /\ item = NoItem
    /\ source_url = NONE_T
    /\ url = NoUrl
    /\ shortcode = NONE_T
    /\ meta = NoMeta
    /\ updates = NoUpdates
    /\ stdout = << >>
    /\ stderr = << >>
    /\ reqs = << >>
    /\ runs = 1
    /\ before = catalog
    /\ snap = NoSnap

Init == InitWorld(UpdateWorlds \cup EarlyWorlds)

Spec == Init /\ [][Next]_vars

InitUrl == InitWorld(UrlWorlds)

SpecUrl == InitUrl /\ [][Next]_vars

InitTarget == InitWorld(TargetWorlds)

SpecTarget == InitTarget /\ [][Next]_vars

(***************************************************************************)
(* Properties of the plugin.                                               *)
(***************************************************************************)
\* The run ended with the summary "Updated Instagram metadata: ...".
Succeeded ==
    pc = "done" /\ stdout = <<Output("Updated Instagram metadata", FALSE)>>

\* The operations of the requests of this run, and how many of them are in a set.
OpAt(i) == reqs[i].op
Count(ops) == Cardinality({ i \in DOMAIN reqs : OpAt(i) \in ops })
FindOps == {"findScene", "findImage"}
UpdateOps == {"sceneUpdate", "imageUpdate"}
MutationOps == UpdateOps \cup {"tagCreate"}

\* The last request of the run is the update mutation; its input.
UpdateSent == reqs # << >> /\ OpAt(Len(reqs)) \in UpdateOps
SentInput == reqs[Len(reqs)].input

\* The targeted item as the catalog holds it now.
TargetItem == catalog.items[<<target.type, target.id>>]

\* C1: every failure of a step of the plugin is caught and the run ends by printing the
\* error payload {"output": msg, "error": msg}; no run ends with an uncaught exception
\* and nothing on standard output.
C1_EveryFailureReported ==
    Ended =>
        /\ pc = "done"
        /\ Len(stdout) = 1
        /\ (~Succeeded => stdout[1].error = stdout[1].output)

\* args.overwrite is false or absent.
OverwriteOff == raw.args.overwrite \in {JAbsent, JBool(FALSE)}

\* C3: with overwrite false or absent, a title, date or url that the looked-up item
\* already has is not in the update mutation and the catalog keeps the item's value; a
\* field is sent only if it was blank, and date only if the post has a date.
C3_FillOnlyBlanks ==
    (UpdateSent /\ OverwriteOff) =>
        /\ \A f \in {"title", "date"} :
             item[f] \notin {NONE, ""} => f \notin SentInput.keys /\ TargetItem[f] = item[f]
        /\ item.url \notin {NONE_T, << >>} =>
             "url" \notin SentInput.keys /\ TargetItem.url = item.url
        /\ "date" \in SentInput.keys => meta.date # NONE /\ SentInput.date = meta.date
        /\ "title" \in SentInput.keys => SentInput.title = meta.caption
        /\ "url" \in SentInput.keys => SentInput.url = meta.permalink

\* C3 witness: a successful run without overwrite on an item that has a title and a url
\* but no date: only the date is sent.
C3_Witness ==
    /\ Succeeded /\ OverwriteOff /\ UpdateSent
    /\ item.title = "Old title" /\ item.url = UrlReel /\ item.date = ""
    /\ SentInput.keys = {"date"}
    /\ TargetItem.title = "Old title" /\ TargetItem.date = "1970-01-02"

\* The positions of the catalog's tags named after the post's author.
AuthorTags == { i \in DOMAIN catalog.tags : catalog.tags[i].name = meta.username }
Occurrences(seq, x) == Cardinality({ i \in DOMAIN seq : seq[i] = x })

\* C5: after a successful run on a post with a username, one tag of that name is in the
\* catalog and on the item; it was created only if the catalog had none when the run
\* started; the tag_ids sent hold its id exactly once and every tag id the item had.
C5_UsernameTagAttached ==
    (Succeeded /\ meta.username \notin {NONE, ""}) =>
        /\ Cardinality(AuthorTags) = 1
        /\ \A i \in AuthorTags :
             /\ "tag_ids" \in SentInput.keys
             /\ Occurrences(SentInput.tag_ids, catalog.tags[i].id) = 1
             /\ Occurrences(TargetItem.tags, catalog.tags[i].id) = 1
        /\ \A j \in DOMAIN item.tags : Occurrences(SentInput.tag_ids, item.tags[j]) = 1
        /\ (Count({"tagCreate"}) > 0 =>
              \A i \in DOMAIN before.tags : before.tags[i].name # meta.username)
        /\ Count({"tagCreate"}) <= 1

\* C5 witness: a successful run that created the author's tag and added it to a tagged item.
C5_Witness ==
    /\ Succeeded /\ meta.username = "alice"
    /\ Count({"tagCreate"}) = 1
    /\ item.tags = <<"1">> /\ SentInput.tag_ids = <<"1", "2">>

\* C6: in a run there is at most one GET, one item lookup and one update mutation; the
\* lookup and the update name the detected target's id and its type; no operation is
\* issued twice, so nothing is retried.
C6_SinglePostSingleItem ==
    /\ Count({"GET"}) <= 1 /\ Count(FindOps) <= 1 /\ Count(UpdateOps) <= 1
    /\ \A i, j \in DOMAIN reqs : i # j => OpAt(i) # OpAt(j)
    /\ \A i \in DOMAIN reqs :
         /\ OpAt(i) \in FindOps \cup UpdateOps => reqs[i].id = target.id
         /\ OpAt(i) \in FindOps => (OpAt(i) = "findScene") = (target.type = "Scene")
         /\ OpAt(i) \in UpdateOps => (OpAt(i) = "sceneUpdate") = (target.type = "Scene")
    /\ (pc = "crashed" /\ reqs # << >> => Count({OpAt(Len(reqs))}) = 1)

\* C6 witness: a successful run on an Image, which sent imageUpdate after one GET.
C6_Witness ==
    /\ Succeeded /\ target.type = "Image"
    /\ Count({"GET"}) = 1 /\ Count({"findImage"}) = 1 /\ Count({"imageUpdate"}) = 1

\* A mutation is issued only after the lookup and the GET, with the item found, the URL
\* resolved, the shortcode extracted and the payload parsed; tagCreate precedes the update.
C9_Ordering ==
    \A i \in DOMAIN reqs :
        OpAt(i) \in MutationOps =>
            /\ \E j \in 1..(i - 1) : OpAt(j) \in FindOps
            /\ \E j \in 1..(i - 1) : OpAt(j) = "GET"
            /\ item.found /\ TruthyT(source_url) /\ TruthyT(shortcode) /\ meta.st = "ok"
            /\ \A j \in DOMAIN reqs : OpAt(i) \in UpdateOps /\ OpAt(j) = "tagCreate" => j < i

\* C9 as stated: mutations come last, and every run that does not end with the success
\* message leaves the catalog as it was.
C9_NoSuccessNoChange ==
    /\ C9_Ordering
    /\ (Ended /\ ~Succeeded => catalog = before)

\* C9 amended: mutations come last; a run that ends with an error payload, and a run
\* that ends before tagCreate or the update is issued, leaves the catalog as it was; a
\* run that ends with an uncaught exception after tagCreate or the update was issued may
\* have changed it.
C9_ChangeOnlyAfterMutation ==
    /\ C9_Ordering
    /\ (pc = "done" /\ ~Succeeded => catalog = before)
    /\ (Count(MutationOps) = 0 => catalog = before)
    /\ (Ended /\ ~Succeeded /\ catalog # before => pc = "crashed" /\ Count(MutationOps) > 0)

\* C9 witness: tagCreate succeeded and the update failed: the run ended with an
\* exception, the new tag is in the catalog, the item is as it was.
C9_Witness ==
    /\ pc = "crashed"
    /\ Count({"tagCreate"}) = 1 /\ UpdateSent
    /\ Len(catalog.tags) = Len(before.tags) + 1
    /\ catalog.items = before.items

\* C10: once a run has succeeded, a further run on the same input and the same post
\* leaves the catalog (the item's title, date, url and tag list, and the tags) as that
\* run left it, and it issues no tagCreate.
C10_Idempotent ==
    snap.run # 0 =>
        /\ catalog = snap.catalog
        /\ (runs > snap.run => Count({"tagCreate"}) = 0)
        /\ \A k \in DOMAIN catalog.items :
             \A i, j \in DOMAIN catalog.items[k].tags :
                 i # j => catalog.items[k].tags[i] # catalog.items[k].tags[j]

\* C10 witness: the first run succeeded and created a tag, the second run succeeded too
\* and sent the title, the url and the tag list again.
C10_Witness ==
    /\ snap.run = 1 /\ runs = 2 /\ Succeeded
    /\ Len(snap.catalog.tags) = 2 /\ Len(before.tags) = 2
    /\ SentInput.keys = {"title", "url", "tag_ids"}

(***************************************************************************)
(* Properties of the URL resolution, under SpecUrl.                        *)
(***************************************************************************)
\* The sidecar of one media file: <path>.info.json if it loads, else <path>.json.
SidecarOf(q) ==
    IF fs[q].info.k = "data" THEN <<fs[q].info.data>>
    ELSE IF fs[q].json.k = "data" THEN <<fs[q].json.data>>
    ELSE << >>
UrlOfSidecar(sd) ==
    IF sd = << >> \/ sd[1].kind # "dict" THEN NONE_T ELSE SidecarToUrl(sd[1]).url

\* The URL of the first media file's sidecar, and of the first sidecar that loads.
FirstFileUrl == IF item.paths = << >> THEN NONE_T ELSE UrlOfSidecar(SidecarOf(item.paths[1]))
Loadable == { i \in DOMAIN item.paths : SidecarOf(item.paths[i]) # << >> }
FirstLoadableUrl ==
    IF Loadable = {} THEN NONE_T
    ELSE UrlOfSidecar(SidecarOf(item.paths[CHOOSE i \in Loadable : \A j \in Loadable : i <= j]))

Empty(u) == u \in {NONE_T, << >>}
FirstOf(a, b, c) == IF ~Empty(a) THEN a ELSE IF ~Empty(b) THEN b ELSE c
HasCode(u) == ExtractShortcode(u) # NONE_T

\* The item was found and the URL resolution ended without an uncaught exception.
Resolved == item.found /\ pc # "crashed"
NoUrlReported ==
    stdout = <<Output("No Instagram URL found (provide args.url or ensure item.url/sidecar contains it).", TRUE)>>
NoCodeReported == stdout = <<Output("Could not extract shortcode from URL", TRUE)>>
Proceeded == Count({"GET"}) > 0 \/ pc = "fetch"

HookType == IF TruthyJ(raw.hook_ctx.type) THEN raw.hook_ctx.type ELSE raw.hook_ctx.typename
HookTyped ==
    /\ raw.hook_ctx.isdict
    /\ HookType.t = "str" /\ HookType.s \in {"Scene", "Image"}
    /\ TruthyJ(raw.hook_ctx.id)
HookKeyAt(k) == raw.hook_ctx.isdict /\ raw.hook_ctx[HookKeys[k][1]].t # "absent"
HookKeyed == \E k \in DOMAIN HookKeys : HookKeyAt(k)
ArgType == IF TruthyJ(raw.args.target_type) THEN raw.args.target_type ELSE raw.args.type
ArgId == IF TruthyJ(raw.args.target_id) THEN raw.args.target_id ELSE raw.args.id
ArgsTarget == ArgType.t = "str" /\ ArgType.s \in {"Scene", "Image"} /\ TruthyJ(ArgId)

\* C7: the detected target is a Scene or an Image; hookContext wins over args: a
\* type/__typename of Scene or Image with an id gives that target, else the first of
\* the sceneId ... imageID keys that is there gives it, whatever args hold; otherwise
\* the target_type/type and target_id/id of args give it; when neither names a target
\* the run ends with the 'Unable to determine target' error payload and has issued no
\* request.
C7_HookContextFirst ==
    (raw.kind = "object" /\ pc # "start") =>
        /\ (HookTyped => target = [type |-> HookType.s, id |-> PyStr(raw.hook_ctx.id)])
        /\ (~HookTyped /\ HookKeyed =>
              \E k \in DOMAIN HookKeys :
                  /\ HookKeyAt(k) /\ \A j \in 1..(k - 1) : ~HookKeyAt(j)
                  /\ target = [type |-> HookKeys[k][2],
                               id |-> PyStr(raw.hook_ctx[HookKeys[k][1]])])
        /\ (~HookTyped /\ ~HookKeyed /\ ArgsTarget =>
              target = [type |-> ArgType.s, id |-> PyStr(ArgId)])
        /\ (~HookTyped /\ ~HookKeyed /\ ~ArgsTarget =>
              /\ pc = "done" /\ reqs = << >> /\ target = NoTarget
              /\ stdout = <<Output("Unable to determine target Scene/Image id from hookContext or args.", TRUE)>>)
        /\ (target # NoTarget => target.type \in {"Scene", "Image"})

\* C7 witness: hookContext names Scene 1 by type and id, args name an Image, and the
\* lookup is about to be issued for the Scene.
C7_Witness ==
    /\ pc = "lookup" /\ HookTyped /\ ArgsTarget
    /\ ArgType.s = "Image" /\ target = [type |-> "Scene", id |-> "1"]

====
